---- MODULE Spec2Model ----
(***************************************************************************)
(* ConnectZ (src/connectz.py): the replay of a recorded Connect-Z game.    *)
(* ConnectZ.__init__ parses a text stream into (x, y, z) and a list of     *)
(* moves; ConnectZ.play replays the moves on a grid of columns and returns *)
(* a GameResult or raises one of the IllegalGameException kinds.           *)
(*                                                                         *)
(* Python's 0-based lists are 1-based sequences here: grid[c] is           *)
(* self._grid[c - 1], and GetOrNone takes the 0-based (x, y) of the code.  *)
(***************************************************************************)
EXTENDS Integers, Sequences, FiniteSets, TLC

VARIABLES
    text_io,   \* the stream given to __init__: [lines, pos] (lines already read: pos)
    x,         \* self._x
    y,         \* self._y
    z,         \* self._z
    moves,     \* self._moves
    grid,      \* self._grid (<<>> stands for None, before play() builds it)
    gen,       \* how many values the generator players() has yielded
    player,    \* play()'s local `player` ("unbound" before the first iteration)
    applied,   \* how many moves the loop of play() has passed to put_disc with success
    pc,        \* "new", "constructed", "loop", "done"; "board", "checked" in SpecBoard
    result,    \* what play() returned ("None": nothing returned)
    raised     \* the exception that ended the program ("None": none)

vars == <<text_io, x, y, z, moves, grid, gen, player, applied, pc, result, raised>>

-----------------------------------------------------------------------------
(* Bounds of the model. *)

\* Largest number of columns, of rows and largest run length of a configuration.
MaxDim == 3

\* Longest move log.
MaxMoves == 4

\* Longest move log of the text inputs of SpecInput.
MaxLines == 2

\* Longest move log of the text inputs of SpecScenario.
MaxScenarioMoves == 4

\* Largest number of columns, of rows and largest run length of the boards of
\* SpecBoard, and the most discs on one of them.
MaxBoardDim == 3
MaxDiscs == 6

-----------------------------------------------------------------------------
(* Enumerations: Player (lines 39-41), GameResult (lines 44-47). *)

FIRST == "FIRST"
SECOND == "SECOND"
None == "None"

Player == {FIRST, SECOND}

PlayerValue(p) == IF p = FIRST THEN 1 ELSE 2

\* GameResult(value): the member of GameResult with that value.
GameResult(value) ==
    CASE value = 0 -> "DRAW"
      [] value = 1 -> "FIRST_WON"
      [] value = 2 -> "SECOND_WON"

DRAW == GameResult(0)

\* The value of a GameResult member (sys.exit(result.value)).
GameResultValue(r) ==
    CASE r = "DRAW" -> 0
      [] r = "FIRST_WON" -> 1
      [] r = "SECOND_WON" -> 2

\* A truth test by value, as of an IntEnum: DRAW (value 0) is false.
TruthyByValue(v) == v # None /\ GameResultValue(v) # 0

\* bool(v) of an Optional[GameResult]: None is false, every member of a plain
\* Enum is true, DRAW (value 0) included.
Truthy(v) == v # None

-----------------------------------------------------------------------------
(* players(), lines 50-53: the n-th value (0-based) the generator yields. *)

\* A generator that never leaves its first yield.
PlayersStuck(n) == FIRST

Players(n) == IF n % 2 = 0 THEN FIRST ELSE SECOND

-----------------------------------------------------------------------------
(* The board and the win detector, lines 77-127. *)

Min(a, b) == IF a < b THEN a ELSE b
Max(a, b) == IF a > b THEN a ELSE b

\* _get_or_none(x, y), 0-based, lines 77-79.
GetOrNone(g, cx, cy) ==
    LET column == g[cx + 1]
    IN  IF cy >= Len(column) THEN None ELSE column[cy + 1]

\* A range of start columns that is one short: range(x - z).
DiagStartsXShort == Max(x - z, 0)

\* The number of diagonal start offsets along each axis, lines 82-83.
DiagStartsX == Max(x + 1 - z, 0)
DiagStartsY == Max(y + 1 - z, 0)

\* zip(range(sx, x), range(sy, y)), line 84: the cells of one rising diagonal.
DiagonalUp(sx, sy) ==
    [k \in 1 .. Min(x - sx, y - sy) |-> <<sx + (k - 1), sy + (k - 1)>>]

\* zip(range(x - 1 - sx, -1, -1), range(sy, y)), line 85.
DiagonalDown(sx, sy) ==
    [k \in 1 .. Min(x - sx, y - sy) |-> <<(x - 1 - sx) - (k - 1), sy + (k - 1)>>]

\* _diagonals(), lines 81-85: for each start offset the two diagonals, in the
\* order the generator yields them.
Diagonals ==
    [n \in 1 .. (2 * DiagStartsX * DiagStartsY) |->
        LET sx == (n - 1) \div (2 * DiagStartsY)
            sy == ((n - 1) \div 2) % DiagStartsY
        IN  IF (n - 1) % 2 = 0 THEN DiagonalUp(sx, sy) ELSE DiagonalDown(sx, sy)]

\* _possible_lines(), lines 87-94: the columns, then the rows, then the diagonals.
PossibleLines(g) ==
    LET ds == Diagonals
    IN  g
        \o [r \in 1 .. y |-> [c \in 1 .. x |-> GetOrNone(g, c - 1, r - 1)]]
        \o [n \in 1 .. Len(ds) |->
                [k \in 1 .. Len(ds[n]) |-> GetOrNone(g, ds[n][k][1], ds[n][k][2])]]

\* A draw check with any() for all().
CheckForDrawAny(g) == \E c \in 1 .. Len(g) : Len(g[c]) = y

\* _check_for_draw(), lines 96-97.
CheckForDraw(g) == \A c \in 1 .. Len(g) : Len(g[c]) = y

\* The loop of _check_for_result_in_line, lines 100-112, from field i on with
\* the run counter at `repeats`.
RECURSIVE ScanLine(_, _, _, _)
ScanLine(line, p, i, repeats) ==
    IF i > Len(line)
    THEN IF repeats = z THEN GameResult(PlayerValue(p)) ELSE None
    ELSE IF repeats = z
         THEN GameResult(PlayerValue(p))
         ELSE ScanLine(line, p, i + 1, IF line[i] = p THEN repeats + 1 ELSE 0)

\* A scan that reports a run one disc short of z.
CheckForResultInLineShort(line, p) ==
    IF \E i \in 0 .. (Len(line) - (z - 1)) : \A k \in 1 .. (z - 1) : line[i + k] = p
    THEN GameResult(PlayerValue(p)) ELSE None

\* _check_for_result_in_line(line, player), lines 99-112.
CheckForResultInLine(line, p) == ScanLine(line, p, 1, 0)

\* A _check_for_result that looks at the full board before the lines.
CheckForResultDrawFirst(g, p) ==
    LET lines == PossibleLines(g)
        hits == {n \in 1 .. Len(lines) : Truthy(CheckForResultInLine(lines[n], p))}
    IN  IF CheckForDraw(g) THEN DRAW
        ELSE IF hits # {} THEN GameResult(PlayerValue(p))
        ELSE None

\* _check_for_result(player), lines 114-123: the result of the first line that
\* has one, else DRAW on a full board, else None.
CheckForResult(g, p) ==
    LET lines == PossibleLines(g)
        hits == {n \in 1 .. Len(lines) : Truthy(CheckForResultInLine(lines[n], p))}
    IN  IF hits # {}
        THEN CheckForResultInLine(lines[CHOOSE n \in hits : \A m \in hits : n <= m], p)
        ELSE IF CheckForDraw(g) THEN DRAW
        ELSE None

\* A get_second_user that returns the player it was given.
GetSecondUserSame(p) == p

\* get_second_user(player), lines 125-127.
GetSecondUser(p) == IF p = SECOND THEN FIRST ELSE SECOND

-----------------------------------------------------------------------------
(* put_disc(player, column), lines 68-75: the exception it raises ("None": *)
(* none) and the grid it leaves.                                           *)

\* A put_disc that lets a full column take one more disc.
PutDiscOffByOne(g, p, column) ==
    IF ~(0 < column /\ column <= x)
    THEN [raised |-> "InvalidColumnException", grid |-> g]
    ELSE IF Len(g[column]) > y
    THEN [raised |-> "ColumnToHighException", grid |-> g]
    ELSE [raised |-> None, grid |-> [g EXCEPT ![column] = Append(@, p)]]

\* A put_disc that takes the column for a 0-based index.
PutDiscZeroBased(g, p, column) ==
    IF ~(0 <= column /\ column < x)
    THEN [raised |-> "InvalidColumnException", grid |-> g]
    ELSE IF Len(g[column + 1]) >= y
    THEN [raised |-> "ColumnToHighException", grid |-> g]
    ELSE [raised |-> None, grid |-> [g EXCEPT ![column + 1] = Append(@, p)]]

\* A put_disc on a grid whose columns are one shared list ([[]] * x): the
\* disc shows in every column.
PutDiscAliased(g, p, column) ==
    IF ~(0 < column /\ column <= x)
    THEN [raised |-> "InvalidColumnException", grid |-> g]
    ELSE IF Len(g[column]) >= y
    THEN [raised |-> "ColumnToHighException", grid |-> g]
    ELSE [raised |-> None, grid |-> [c \in 1 .. Len(g) |-> Append(g[c], p)]]

PutDisc(g, p, column) ==
    IF ~(0 < column /\ column <= x)
    THEN [raised |-> "InvalidColumnException", grid |-> g]
    ELSE IF Len(g[column]) >= y
    THEN [raised |-> "ColumnToHighException", grid |-> g]
    ELSE [raised |-> None, grid |-> [g EXCEPT ![column] = Append(@, p)]]

-----------------------------------------------------------------------------
(* The text of the input, lines 57-63. A line is a sequence of characters. *)
(* The characters of the model are the digits, the signs, the blank, the   *)
(* newline and the letter x (which stands for any character int() refuses).*)

DigitChars == <<"0", "1", "2", "3", "4", "5", "6", "7", "8", "9">>

IsDigit(c) == \E i \in 1 .. Len(DigitChars) : DigitChars[i] = c

DigitValue(c) == (CHOOSE i \in 1 .. Len(DigitChars) : DigitChars[i] = c) - 1

IsSpace(c) == c \in {" ", "\n"}

\* str.strip(): without the leading and trailing whitespace.
RECURSIVE LStrip(_)
LStrip(s) == IF s # <<>> /\ IsSpace(Head(s)) THEN LStrip(Tail(s)) ELSE s

RECURSIVE RStrip(_)
RStrip(s) ==
    IF s # <<>> /\ IsSpace(s[Len(s)]) THEN RStrip(SubSeq(s, 1, Len(s) - 1)) ELSE s

Strip(s) == RStrip(LStrip(s))

\* The number a non-empty sequence of digits denotes in base 10.
RECURSIVE DigitsValue(_)
DigitsValue(s) ==
    IF s = <<>> THEN 0
    ELSE 10 * DigitsValue(SubSeq(s, 1, Len(s) - 1)) + DigitValue(s[Len(s)])

\* int(s) on a string of these characters: surrounding whitespace is dropped,
\* one sign is allowed, at least one digit is needed; ok = FALSE is ValueError.
ParseInt(s) ==
    LET t == Strip(s)
        signed == t # <<>> /\ Head(t) \in {"-", "+"}
        digits == IF signed THEN Tail(t) ELSE t
    IN  IF digits # <<>> /\ \A i \in 1 .. Len(digits) : IsDigit(digits[i])
        THEN [ok |-> TRUE,
              value |-> IF signed /\ Head(t) = "-"
                        THEN 0 - DigitsValue(digits) ELSE DigitsValue(digits)]
        ELSE [ok |-> FALSE, value |-> 0]

\* str.split(): the maximal runs of non-whitespace characters, in order.
RECURSIVE SplitFrom(_, _)
SplitFrom(s, token) ==
    IF s = <<>>
    THEN IF token = <<>> THEN <<>> ELSE <<token>>
    ELSE IF IsSpace(Head(s))
         THEN (IF token = <<>> THEN <<>> ELSE <<token>>) \o SplitFrom(Tail(s), <<>>)
         ELSE SplitFrom(Tail(s), Append(token, Head(s)))

Split(s) == SplitFrom(s, <<>>)

\* text_io.readline(): the next line, or the empty string at the end.
ReadLine(io) == IF io.pos < Len(io.lines) THEN io.lines[io.pos + 1] ELSE <<>>

\* Line 60: the three parameters of the first line; ok = FALSE is the
\* ValueError of int() or of unpacking other than three values.
ParseParameters(line) ==
    LET tokens == Split(line)
        ints == [i \in 1 .. Len(tokens) |-> ParseInt(tokens[i])]
    IN  IF Len(tokens) = 3 /\ \A i \in 1 .. 3 : ints[i].ok
        THEN [ok |-> TRUE, x |-> ints[1].value, y |-> ints[2].value, z |-> ints[3].value]
        ELSE [ok |-> FALSE, x |-> 0, y |-> 0, z |-> 0]

\* A reading of the moves that skips the lines holding only whitespace.
ParseMovesSkipBlank(io) ==
    LET rest == (io.pos + 1) .. Len(io.lines)
        kept == {i \in rest : \E k \in 1 .. Len(io.lines[i]) : ~IsSpace(io.lines[i][k])}
        refused == {i \in kept : ~ParseInt(io.lines[i]).ok}
        nth(n) == CHOOSE i \in kept : Cardinality({j \in kept : j < i}) = n - 1
    IN  IF refused = {}
        THEN [ok |-> TRUE,
              moves |-> [n \in 1 .. Cardinality(kept) |-> ParseInt(io.lines[nth(n)]).value],
              pos |-> Len(io.lines)]
        ELSE [ok |-> FALSE, moves |-> <<>>,
              pos |-> CHOOSE i \in refused : \A j \in refused : i <= j]

\* Line 61: int(line) of every line left in the stream; `bad` is the first
\* line (0-based position in the stream) int() refuses, 0 - 1 when there is none.
ParseMoves(io) ==
    LET rest == (io.pos + 1) .. Len(io.lines)
        refused == {i \in rest : ~ParseInt(io.lines[i]).ok}
    IN  IF refused = {}
        THEN [ok |-> TRUE, moves |-> [i \in 1 .. (Len(io.lines) - io.pos) |->
                                        ParseInt(io.lines[io.pos + i]).value],
              pos |-> Len(io.lines)]
        ELSE [ok |-> FALSE, moves |-> <<>>,
              pos |-> CHOOSE i \in refused : \A j \in refused : i <= j]

\* A parameter check without the test for parameters below 1.
InvalidParametersNoMin(px, py, pz) == pz > Max(px, py)

\* Line 65: the condition under which InvalidParametersException is raised.
InvalidParameters(px, py, pz) == pz > Max(px, py) \/ Min(Min(px, py), pz) < 1

-----------------------------------------------------------------------------
(* The inputs. *)

NL == "\n"

\* The tokens the first lines of SpecInput are made of.
HeaderTokens == {<<"0">>, <<"1">>, <<"2">>, <<"x">>}

\* First lines: three tokens, and lines with two or four tokens, a blank line,
\* extra blanks, a negative parameter, a first line without its newline.
HeaderLines ==
    {a \o <<" ">> \o b \o <<" ">> \o c \o <<NL>> : a, b, c \in HeaderTokens}
    \cup {<<"2", " ", "2", NL>>,
          <<"2", " ", "2", " ", "2", " ", "2", NL>>,
          <<NL>>,
          <<" ", "1", " ", " ", "1", " ", "1", " ", NL>>,
          <<"-", "1", " ", "1", " ", "1", NL>>,
          <<"1", " ", "1", " ", "1">>}

\* Move lines: columns, columns out of range, a signed column, a line that is
\* no integer, a blank line.
MoveLines ==
    {<<"1", NL>>, <<"2", NL>>, <<"3", NL>>, <<"0", NL>>, <<"-", "1", NL>>,
     <<"+", "1", NL>>, <<"x", NL>>, <<NL>>}

\* Sequences over S of length at most n.
SeqUpTo(S, n) == UNION {[1 .. k -> S] : k \in 0 .. n}

\* Only the last line of a stream can lack its newline.
WellFormedLines(lines) ==
    \A i \in 1 .. Len(lines) : i < Len(lines) => lines[i][Len(lines[i])] = NL

\* The streams of SpecInput: the empty stream, or a first line and move lines.
TextInputs ==
    {<<>>} \cup
    {l \in {<<h>> \o m : h \in HeaderLines, m \in SeqUpTo(MoveLines, MaxLines)} :
        WellFormedLines(l)}

\* The first lines and the move lines of the games of SpecScenario: boards of
\* 3 by 1, 2 by 2 and 1 by 1 with runs as long as the board, columns 1 to 3,
\* the last line with or without its newline.
ScenarioHeaders ==
    {<<"3", " ", "1", " ", "3", NL>>,
     <<"2", " ", "2", " ", "2", NL>>,
     <<"1", " ", "1", " ", "1", NL>>}

ScenarioMoveLines ==
    {<<"1", NL>>, <<"2", NL>>, <<"3", NL>>, <<"1">>, <<"2">>, <<"3">>}

ScenarioInputs ==
    {l \in {<<h>> \o m : h \in ScenarioHeaders,
                         m \in SeqUpTo(ScenarioMoveLines, MaxScenarioMoves)} :
        WellFormedLines(l)}

\* The columns the move logs of Spec name for a board of px columns: every
\* column, and 0 - 1, 0 and px + 1, which are none.
MoveValues(px) == (0 - 1) .. (px + 1)

-----------------------------------------------------------------------------
(* States and steps. *)

\* The state before ConnectZ(text_io): nothing parsed.
InitInput ==
    /\ text_io \in {[lines |-> l, pos |-> 0] : l \in TextInputs}
    /\ x = 0 /\ y = 0 /\ z = 0
    /\ moves = <<>>
    /\ grid = <<>>
    /\ gen = 0
    /\ player = "unbound"
    /\ applied = 0
    /\ pc = "new"
    /\ result = None
    /\ raised = None

\* The state before ConnectZ(text_io) on the text of a recorded game.
InitScenario ==
    /\ text_io \in {[lines |-> l, pos |-> 0] : l \in ScenarioInputs}
    /\ x = 0 /\ y = 0 /\ z = 0
    /\ moves = <<>>
    /\ grid = <<>>
    /\ gen = 0
    /\ player = "unbound"
    /\ applied = 0
    /\ pc = "new"
    /\ result = None
    /\ raised = None

\* The state after a ConnectZ(text_io) that raised nothing: the parameters
\* passed line 65 and the moves are integers (lines 60-66).
Init ==
    /\ text_io = [lines |-> <<>>, pos |-> 0]
    /\ x \in 1 .. MaxDim
    /\ y \in 1 .. MaxDim
    /\ z \in 1 .. MaxDim
    /\ ~InvalidParameters(x, y, z)
    /\ moves \in SeqUpTo(MoveValues(x), MaxMoves)
    /\ grid = <<>>
    /\ gen = 0
    /\ player = "unbound"
    /\ applied = 0
    /\ pc = "constructed"
    /\ result = None
    /\ raised = None

\* ConnectZ.__init__(text_io), lines 57-66.
Construct ==
    /\ pc = "new"
    /\ LET params == ParseParameters(ReadLine(text_io))
           afterFirst == [text_io EXCEPT !.pos = Min(@ + 1, Len(text_io.lines))]
           parsed == ParseMoves(afterFirst)
       IN  IF ~params.ok
           THEN /\ raised' = "ParsingProblem"
                /\ pc' = "done"
                /\ text_io' = afterFirst
                /\ UNCHANGED <<x, y, z, moves>>
           ELSE IF ~parsed.ok
           THEN /\ raised' = "ParsingProblem"
                /\ pc' = "done"
                /\ text_io' = [text_io EXCEPT !.pos = parsed.pos]
                /\ x' = params.x /\ y' = params.y /\ z' = params.z
                /\ UNCHANGED moves
           ELSE /\ text_io' = [text_io EXCEPT !.pos = parsed.pos]
                /\ x' = params.x /\ y' = params.y /\ z' = params.z
                /\ moves' = parsed.moves
                /\ IF InvalidParameters(params.x, params.y, params.z)
                   THEN raised' = "InvalidParametersException" /\ pc' = "done"
                   ELSE raised' = None /\ pc' = "constructed"
    /\ UNCHANGED <<grid, gen, player, applied, result>>

\* play(), line 130: the empty grid of x columns.
PlayStart ==
    /\ pc = "constructed"
    /\ grid' = [c \in 1 .. x |-> <<>>]
    /\ pc' = "loop"
    /\ UNCHANGED <<text_io, x, y, z, moves, gen, player, applied, result, raised>>

\* An iteration that lets put_disc validate the column before the result of
\* the other player is checked.
PlayMoveColumnFirst ==
    /\ pc = "loop"
    /\ applied < Len(moves)
    /\ LET column == moves[applied + 1]
           p == Players(gen)
           put == PutDisc(grid, p, column)
       IN  /\ gen' = gen + 1
           /\ player' = p
           /\ IF put.raised # None
              THEN /\ raised' = put.raised
                   /\ pc' = "done"
                   /\ UNCHANGED <<grid, applied>>
              ELSE IF Truthy(CheckForResult(grid, GetSecondUser(p)))
              THEN /\ raised' = "ToManyMovesException"
                   /\ pc' = "done"
                   /\ UNCHANGED <<grid, applied>>
              ELSE /\ grid' = put.grid
                   /\ applied' = applied + 1
                   /\ UNCHANGED <<raised, pc>>
    /\ UNCHANGED <<text_io, x, y, z, moves, result>>

\* play(), lines 131-134: one iteration of the loop. zip takes the next move,
\* then the next player; the result of the other player is checked, then the
\* disc is put.
PlayMove ==
    /\ pc = "loop"
    /\ applied < Len(moves)
    /\ LET column == moves[applied + 1]
           p == Players(gen)
           put == PutDisc(grid, p, column)
       IN  /\ gen' = gen + 1
           /\ player' = p
           /\ IF Truthy(CheckForResult(grid, GetSecondUser(p)))
              THEN /\ raised' = "ToManyMovesException"
                   /\ pc' = "done"
                   /\ UNCHANGED <<grid, applied>>
              ELSE IF put.raised # None
              THEN /\ raised' = put.raised
                   /\ pc' = "done"
                   /\ UNCHANGED <<grid, applied>>
              ELSE /\ grid' = put.grid
                   /\ applied' = applied + 1
                   /\ UNCHANGED <<raised, pc>>
    /\ UNCHANGED <<text_io, x, y, z, moves, result>>

\* play(), lines 136-141: the moves are exhausted. `player` is the last value
\* the loop bound; with no move it was never bound and line 136 raises
\* UnboundLocalError.
PlayEnd ==
    /\ pc = "loop"
    /\ applied = Len(moves)
    /\ pc' = "done"
    /\ IF player = "unbound"
       THEN raised' = "UnboundLocalError" /\ UNCHANGED result
       ELSE LET r == CheckForResult(grid, player)
            IN  IF ~Truthy(r)
                THEN raised' = "LackOfResultException" /\ UNCHANGED result
                ELSE result' = r /\ UNCHANGED raised
    /\ UNCHANGED <<text_io, x, y, z, moves, grid, gen, player, applied>>

Play == PlayStart \/ PlayMove \/ PlayEnd

Next == Play

NextInput == Construct \/ Play

\* The replay of the moves by a constructed ConnectZ.
Spec == Init /\ [][Next]_vars

\* The whole program on a text stream: construction, then the replay.
SpecInput == InitInput /\ [][NextInput]_vars

\* A ConnectZ with a valid configuration and the empty grid of line 130, on
\* which put_disc and _check_for_result are called directly.
InitBoard ==
    /\ text_io = [lines |-> <<>>, pos |-> 0]
    /\ x \in 1 .. MaxBoardDim
    /\ y \in 1 .. MaxBoardDim
    /\ z \in 1 .. MaxBoardDim
    /\ ~InvalidParameters(x, y, z)
    /\ moves = <<>>
    /\ grid = [c \in 1 .. x |-> <<>>]
    /\ gen = 0
    /\ player = "unbound"
    /\ applied = 0
    /\ pc = "board"
    /\ result = None
    /\ raised = None

\* put_disc(player, column), lines 68-75, for any player and any column with
\* room: the calls that build the boards with columns of at most y discs.
BoardPut ==
    /\ pc = "board"
    /\ applied < MaxDiscs
    /\ \E p \in Player, column \in 1 .. x :
        LET put == PutDisc(grid, p, column)
        IN  /\ put.raised = None
            /\ grid' = put.grid
    /\ applied' = applied + 1
    /\ UNCHANGED <<text_io, x, y, z, moves, gen, player, pc, result, raised>>

\* _check_for_result(player), lines 114-123, on the board as it stands.
BoardCheck ==
    /\ pc = "board"
    /\ \E p \in Player :
        /\ player' = p
        /\ result' = CheckForResult(grid, p)
    /\ pc' = "checked"
    /\ UNCHANGED <<text_io, x, y, z, moves, grid, gen, applied, raised>>

NextBoard == BoardPut \/ BoardCheck

\* The win detector on every board of the bounds.
SpecBoard == InitBoard /\ [][NextBoard]_vars

\* The whole program on the text of a recorded game.
SpecScenario == InitScenario /\ [][NextInput]_vars

\* The exit code of the process, lines 152-169. An exception no clause
\* catches (UnboundLocalError) ends the interpreter with code 1.
ExitCode ==
    CASE raised = None /\ result # None -> GameResultValue(result)
      [] raised = "LackOfResultException" -> 3
      [] raised = "ToManyMovesException" -> 4
      [] raised = "ColumnToHighException" -> 5
      [] raised = "InvalidColumnException" -> 6
      [] raised = "InvalidParametersException" -> 7
      [] raised = "ParsingProblem" -> 8
      [] raised = "UnboundLocalError" -> 1

TypeOK ==
    /\ pc \in {"new", "constructed", "loop", "done", "board", "checked"}
    /\ result \in {None, "DRAW", "FIRST_WON", "SECOND_WON"}
    /\ applied \in 0 .. Len(moves)
    /\ player \in Player \cup {"unbound"}

-----------------------------------------------------------------------------
(* The notions the properties are stated with, independent of the line     *)
(* scan of the code: cells are 0-based (column, row).                      *)

\* The disc in cell (cx, cy) of board g, None for an unfilled cell.
DiscAt(g, cx, cy) == IF cy < Len(g[cx + 1]) THEN g[cx + 1][cy + 1] ELSE None

\* Along a row, along a column, along the two diagonals.
Directions == {<<1, 0>>, <<0, 1>>, <<1, 1>>, <<1, 0 - 1>>}

\* Player p has z consecutive discs in some column, row or diagonal of g.
\* (A line starts at a cell that holds a disc of p, so only the occupied cells
\* of each column are tried as its start.)
HasLine(g, p) ==
    \E cx \in 0 .. (x - 1) :
        \E cy \in 0 .. (Min(y, Len(g[cx + 1])) - 1) :
            /\ DiscAt(g, cx, cy) = p
            /\ \E d \in Directions :
                \A k \in 0 .. (z - 1) :
                    /\ (cx + k * d[1]) >= 0
                    /\ (cx + k * d[1]) < x
                    /\ (cy + k * d[2]) >= 0
                    /\ (cy + k * d[2]) < y
                    /\ DiscAt(g, cx + k * d[1], cy + k * d[2]) = p

\* Every column of g holds y discs.
BoardFull(g) == \A c \in 1 .. x : Len(g[c]) = y

\* The player whose disc the last applied move placed: the tag of the top disc
\* of that move's column (applied > 0).
LastMover == grid[moves[applied]][Len(grid[moves[applied]])]

\* The result that stands for a win of p.
WonBy(p) == IF p = FIRST THEN "FIRST_WON" ELSE "SECOND_WON"

\* The loop of play() reached the end of the log: every move was applied.
ReplayedWithoutFailure == pc = "done" /\ applied = Len(moves)

\* The replay is at a move of the log, reached without an earlier failure.
AtMove == pc = "loop" /\ applied < Len(moves)
NextColumn == moves[applied + 1]

\* The player who placed the last disc has z consecutive discs in a line.
PreviousMoverHasLine == applied > 0 /\ HasLine(grid, LastMover)

\* The replay stopped at a move of the log: the move at which it failed.
FailedAtMove == pc = "done" /\ applied < Len(moves)
FailingColumn == moves[applied + 1]

-----------------------------------------------------------------------------
(* Properties. *)

\* C1. Win priority (result): when the whole log was replayed without failure
\* and its last move, placed by P, leaves z consecutive discs of P in a column,
\* row or diagonal, play() returns P's result, also when the board is full.
C1_WinPriorityResult ==
    (ReplayedWithoutFailure /\ applied > 0 /\ HasLine(grid, LastMover))
        => (result = WonBy(LastMover) /\ raised = None
            /\ ExitCode = PlayerValue(LastMover))

\* C1 witness: a last move that wins and fills the board.
C1_Witness ==
    /\ ReplayedWithoutFailure /\ applied > 0
    /\ HasLine(grid, LastMover) /\ BoardFull(grid)
    /\ result = WonBy(LastMover)

\* C2. Win priority (extra moves): when the board holds a winning line of the
\* player who placed move i and the log has a move i + 1, the next step of
\* play() raises the too-many-moves failure, places no disc, returns no result
\* and ends the replay.
C2_WinPriorityExtraMoves ==
    [][(AtMove /\ PreviousMoverHasLine)
        => (raised' = "ToManyMovesException" /\ grid' = grid
            /\ applied' = applied /\ result' = None /\ pc' = "done"
            /\ ExitCode' = 4)]_vars

\* C2 witness: the replay stopped with too-many-moves at a move recorded
\* after a winning move.
C2_Witness ==
    /\ FailedAtMove /\ applied > 0 /\ HasLine(grid, LastMover)
    /\ raised = "ToManyMovesException" /\ result = None

\* C3. Draw exactness: play() returns DRAW if and only if the log ends with the
\* board full and neither player has z consecutive discs in a line.
C3_DrawExactness ==
    pc = "done" =>
        (result = "DRAW" <=>
            /\ applied = Len(moves)
            /\ BoardFull(grid)
            /\ ~HasLine(grid, FIRST)
            /\ ~HasLine(grid, SECOND))

\* C3 witness: a replay that ended in DRAW.
C3_Witness == pc = "done" /\ result = "DRAW" /\ BoardFull(grid) /\ applied = x * y

\* C4. Zero moves: with an empty move log the engine ends in the
\* missing-result failure, exit code 3.
C4_ZeroMoves ==
    (pc = "done" /\ Len(moves) = 0)
        => (raised = "LackOfResultException" /\ ExitCode = 3)

\* C5. Missing result: when a non-empty log was replayed without failure, the
\* last mover has no winning line and some column holds fewer than y discs,
\* play() raises the missing-result failure and returns nothing.
C5_MissingResult ==
    (ReplayedWithoutFailure /\ applied > 0
        /\ ~HasLine(grid, LastMover) /\ ~BoardFull(grid))
        => (raised = "LackOfResultException" /\ result = None /\ ExitCode = 3)

\* C5 witness: a non-empty log that ends undecided.
C5_Witness ==
    /\ ReplayedWithoutFailure /\ applied > 0
    /\ ~HasLine(grid, LastMover) /\ ~BoardFull(grid)
    /\ raised = "LackOfResultException"

\* The first record of the input and what it parses to; the move records are
\* the lines after it.
HeaderParameters == ParseParameters(ReadLine([text_io EXCEPT !.pos = 0]))
MoveRecordsAreIntegers ==
    \A i \in 2 .. Len(text_io.lines) : ParseInt(text_io.lines[i]).ok

\* The first record parses to (X, Y, Z) with Z > max(X, Y) or min(X, Y, Z) < 1.
HeaderIsInvalidConfiguration ==
    /\ HeaderParameters.ok
    /\ \/ HeaderParameters.z > HeaderParameters.x /\ HeaderParameters.z > HeaderParameters.y
       \/ HeaderParameters.x < 1
       \/ HeaderParameters.y < 1
       \/ HeaderParameters.z < 1

\* C6 as stated. Configuration invariant: an input whose first record parses
\* to an invalid configuration ends in the invalid-configuration failure before
\* the board is created or a move is replayed, whatever the move log holds,
\* records that are no integers included.
C6_ConfigurationInvariantAnyLog ==
    (pc # "new" /\ HeaderIsInvalidConfiguration)
        => (pc = "done" /\ raised = "InvalidParametersException"
            /\ grid = <<>> /\ applied = 0)

\* C6 as amended. An input whose first record parses to an invalid
\* configuration ends before the board is created or a move is replayed: in the
\* invalid-configuration failure (exit code 7) when every move record is an
\* integer, whatever the integers, and in the parsing failure (exit code 8)
\* when some move record is not an integer.
C6_ConfigurationInvariant ==
    (pc # "new" /\ HeaderIsInvalidConfiguration)
        => /\ pc = "done" /\ grid = <<>> /\ applied = 0 /\ result = None
           /\ MoveRecordsAreIntegers
                => (raised = "InvalidParametersException" /\ ExitCode = 7)
           /\ ~MoveRecordsAreIntegers
                => (raised = "ParsingProblem" /\ ExitCode = 8)

\* C6 witness: an invalid configuration followed by a move log is rejected.
C6_Witness ==
    /\ pc = "done" /\ HeaderIsInvalidConfiguration
    /\ Len(text_io.lines) > 1 /\ MoveRecordsAreIntegers
    /\ raised = "InvalidParametersException"

\* C7 as stated. Too-many-moves only after a win: the too-many-moves failure
\* is raised at a move only if the previous mover has z consecutive discs in a
\* line of the board as it stands before that move (so not for a move recorded
\* after the board became full with no winner).
C7_TooManyMovesOnlyAfterWin ==
    (pc = "done" /\ raised = "ToManyMovesException")
        => (applied > 0 /\ HasLine(grid, LastMover))

\* C7 as amended. The too-many-moves failure is raised at a move only if,
\* on the board as it stands before that move, the previous mover has z
\* consecutive discs in a line or every column holds y discs; a move recorded
\* after the board became full with no winner is reported as too-many-moves.
C7_TooManyMovesOnlyAfterResult ==
    /\ (pc = "done" /\ raised = "ToManyMovesException")
            => (applied > 0 /\ (HasLine(grid, LastMover) \/ BoardFull(grid)))
    /\ (FailedAtMove /\ BoardFull(grid)) => raised = "ToManyMovesException"

\* C7 witness: too-many-moves at a move recorded after a full board with no
\* winner.
C7_Witness ==
    /\ FailedAtMove /\ raised = "ToManyMovesException"
    /\ BoardFull(grid) /\ ~HasLine(grid, FIRST) /\ ~HasLine(grid, SECOND)

\* C8 as stated. Column overflow: a move reached without an earlier failure,
\* with its column c in 1..x, at which the previous mover has no winning line
\* and column c holds y discs, ends in the column-overflow failure.
C8_ColumnOverflowWhenNoWinner ==
    [][(/\ AtMove
        /\ NextColumn \in 1 .. x
        /\ Len(grid[NextColumn]) = y
        /\ ~PreviousMoverHasLine)
        => (raised' = "ColumnToHighException" /\ pc' = "done" /\ ExitCode' = 5)]_vars

\* C8 as amended. Column overflow: a move reached without an earlier failure,
\* with its column c in 1..x, at which the previous mover has no winning line,
\* column c holds y discs and some other column holds fewer than y discs, ends
\* in the column-overflow failure (exit code 5) and places no disc; when every
\* column holds y discs it ends in the too-many-moves failure.
C8_ColumnOverflow ==
    [][(/\ AtMove
        /\ NextColumn \in 1 .. x
        /\ Len(grid[NextColumn]) = y
        /\ ~PreviousMoverHasLine)
        => /\ pc' = "done" /\ grid' = grid /\ result' = None
           /\ IF BoardFull(grid)
              THEN raised' = "ToManyMovesException" /\ ExitCode' = 4
              ELSE raised' = "ColumnToHighException" /\ ExitCode' = 5]_vars

\* C8 witness: a move into a full column of a board that is not full.
C8_Witness ==
    /\ FailedAtMove /\ FailingColumn \in 1 .. x
    /\ Len(grid[FailingColumn]) = y /\ ~BoardFull(grid)
    /\ raised = "ColumnToHighException"

\* C9 as stated. Invalid column and failure priority: a move reached without
\* an earlier failure whose column is 0, negative or greater than x ends in the
\* invalid-column failure, also when the game already has a winner.
C9_InvalidColumnFirst ==
    [][(AtMove /\ NextColumn \notin 1 .. x)
        => (raised' = "InvalidColumnException" /\ pc' = "done" /\ ExitCode' = 6)]_vars

\* C9 as amended. A move reached without an earlier failure whose column is 0,
\* negative or greater than x ends in the invalid-column failure (exit code 6)
\* when, before that move, the previous mover has no winning line and the board
\* is not full; when the previous mover has a winning line or the board is
\* full, the move ends in the too-many-moves failure (exit code 4) instead.
C9_InvalidColumn ==
    [][(AtMove /\ NextColumn \notin 1 .. x)
        => /\ pc' = "done" /\ grid' = grid /\ result' = None
           /\ IF PreviousMoverHasLine \/ BoardFull(grid)
              THEN raised' = "ToManyMovesException" /\ ExitCode' = 4
              ELSE raised' = "InvalidColumnException" /\ ExitCode' = 6]_vars

\* C9 witness: an out-of-range column on an undecided board.
C9_Witness ==
    /\ FailedAtMove /\ FailingColumn \notin 1 .. x /\ applied > 0
    /\ raised = "InvalidColumnException"

\* C10. Alternation: the disc a step of the replay places for the i-th move of
\* the log (0-based) is tagged FIRST when i is even and SECOND when i is odd,
\* and a step applies exactly the next move of the log.
C10_Alternation ==
    [][applied' # applied =>
        /\ applied' = applied + 1
        /\ LET c == moves[applied + 1]
           IN  /\ Len(grid'[c]) = Len(grid[c]) + 1
               /\ grid'[c][Len(grid'[c])] =
                    (IF applied % 2 = 0 THEN FIRST ELSE SECOND)]_vars

\* C10 witness: a board with discs of at least three applied moves, of both
\* players.
C10_Witness ==
    /\ applied >= 3
    /\ \E c \in 1 .. x : \E i \in 1 .. Len(grid[c]) : grid[c][i] = SECOND

\* C11. Monotonic board growth: in every state of a replay each column holds
\* between 0 and y discs, and a step leaves each column's sequence of discs as
\* it was or extends it by exactly one disc at its top. (There are no columns
\* before play() builds the grid, so the bound on the columns is stated of the
\* state every step leads to.)
C11_MonotonicBoardGrowth ==
    [][/\ \A c \in 1 .. Len(grid') : Len(grid'[c]) \in 0 .. y
       /\ \A c \in 1 .. Len(grid) :
            \/ grid'[c] = grid[c]
            \/ /\ Len(grid'[c]) = Len(grid[c]) + 1
               /\ SubSeq(grid'[c], 1, Len(grid[c])) = grid[c]]_vars

\* C11 witness: a column filled to y >= 2 discs, one move at a time.
C11_Witness ==
    /\ y >= 2 /\ applied >= 3
    /\ \E c \in 1 .. Len(grid) : Len(grid[c]) = y

\* The input "3 1 3\n1\n2\n3".
Scenario313 ==
    <<<<"3", " ", "1", " ", "3", NL>>, <<"1", NL>>, <<"2", NL>>, <<"3">>>>

\* C12 as stated. Scenario: for X=3, Y=1, Z=3 and the move log 1, 2, 3 the
\* engine concludes with FIRST_WON (exit code 1).
C12_ScenarioFirstWon ==
    (text_io.lines = Scenario313 /\ pc = "done")
        => (result = "FIRST_WON" /\ ExitCode = 1)

\* C12 as amended. Scenario: for X=3, Y=1, Z=3 and the move log 1, 2, 3 the
\* three moves are placed, the disc of column 2 is SECOND's, so the row reads
\* FIRST, SECOND, FIRST with no run of 3, the board is full and the engine
\* concludes with DRAW (exit code 0).
C12_ScenarioDraw ==
    (text_io.lines = Scenario313 /\ pc = "done")
        => /\ grid = <<<<FIRST>>, <<SECOND>>, <<FIRST>>>>
           /\ ~HasLine(grid, FIRST)
           /\ result = "DRAW" /\ raised = None /\ ExitCode = 0

\* C12 witness: the replay of that input has ended.
C12_Witness ==
    text_io.lines = Scenario313 /\ pc = "done" /\ applied = 3 /\ result = "DRAW"

\* The input "2 2 2\n1\n1\n2\n2".
Scenario222 ==
    <<<<"2", " ", "2", " ", "2", NL>>, <<"1", NL>>, <<"1", NL>>, <<"2", NL>>, <<"2">>>>

\* C13 as stated. Scenario: for X=2, Y=2, Z=2 and the move log 1, 1, 2, 2 all
\* four moves are placed, the board is full with no 2-in-a-row for either
\* player, and the engine concludes with DRAW (exit code 0).
C13_ScenarioDraw ==
    (text_io.lines = Scenario222 /\ pc = "done")
        => /\ applied = 4 /\ BoardFull(grid)
           /\ ~HasLine(grid, FIRST) /\ ~HasLine(grid, SECOND)
           /\ result = "DRAW" /\ ExitCode = 0

\* C13 as amended. Scenario: for X=2, Y=2, Z=2 and the move log 1, 1, 2, 2 the
\* third move gives FIRST the two discs of row 0, so only three moves are
\* placed and the fourth ends the replay in the too-many-moves failure (exit
\* code 4); no result is returned.
C13_ScenarioTooManyMoves ==
    (text_io.lines = Scenario222 /\ pc = "done")
        => /\ applied = 3
           /\ grid = <<<<FIRST, SECOND>>, <<FIRST>>>>
           /\ HasLine(grid, FIRST)
           /\ raised = "ToManyMovesException" /\ result = None /\ ExitCode = 4

\* C13 witness: the replay of that input has ended at its fourth move.
C13_Witness ==
    /\ text_io.lines = Scenario222 /\ pc = "done"
    /\ applied = 3 /\ raised = "ToManyMovesException"

\* The terminal states the design declares: concluded with a game result, or
\* failed with one of the four failures of a replay.
Concluded == result \in {"DRAW", "FIRST_WON", "SECOND_WON"} /\ raised = None
Failed ==
    /\ raised \in {"InvalidColumnException", "ColumnToHighException",
                   "ToManyMovesException", "LackOfResultException"}
    /\ result = None

\* C14. Termination in a declared terminal state: for every valid
\* configuration and every finite move log, the empty log included, the replay
\* takes the moves in log order, each at most once, and after at most
\* len(moves) moves it is in exactly one terminal state, concluded with DRAW,
\* FIRST_WON or SECOND_WON, or failed with invalid-column, column-overflow,
\* too-many-moves or missing-result.
C14_TerminationDeclared ==
    /\ gen <= Len(moves) /\ applied <= gen
    /\ pc = "done" => (Concluded \/ Failed)

\* A record that holds nothing but whitespace: an empty (blank) line.
IsBlankRecord(line) == \A k \in 1 .. Len(line) : IsSpace(line[k])

\* The position of the last line that is the first record or not blank; the
\* lines after it are the blank trailing records.
LastNonBlank ==
    CHOOSE i \in 1 .. Len(text_io.lines) :
        /\ i = 1 \/ ~IsBlankRecord(text_io.lines[i])
        /\ \A j \in (i + 1) .. Len(text_io.lines) : IsBlankRecord(text_io.lines[j])

\* The move records are integers followed by one or more blank lines.
MovesThenBlankLines ==
    /\ Len(text_io.lines) >= 1
    /\ LastNonBlank < Len(text_io.lines)
    /\ \A i \in 2 .. LastNonBlank : ParseInt(text_io.lines[i]).ok

\* Some move record is not blank and is not an integer.
SomeMalformedRecord ==
    \E i \in 2 .. Len(text_io.lines) :
        ~IsBlankRecord(text_io.lines[i]) /\ ~ParseInt(text_io.lines[i]).ok

\* C15 as stated. Blank trailing records: move records followed by one or
\* more blank lines are parsed as if the blank lines were absent (no move, no
\* parsing failure), while a non-empty record that is not an integer raises
\* the parsing failure.
C15_BlankTrailingIgnored ==
    (pc # "new" /\ HeaderParameters.ok)
        => /\ MovesThenBlankLines
                => /\ raised # "ParsingProblem"
                   /\ moves = [i \in 1 .. (LastNonBlank - 1) |->
                                ParseInt(text_io.lines[i + 1]).value]
           /\ SomeMalformedRecord => raised = "ParsingProblem"

\* C15 as amended. A blank line among or after the move records is a record
\* that is not an integer: like any record that is not an integer it raises
\* the parsing failure (exit code 8), and no move list or board is made. When
\* every record after the first is an integer, each of them is one move and
\* no parsing failure is raised; the newline ending the last record adds none.
C15_BlankRecordsRefused ==
    (pc # "new" /\ HeaderParameters.ok)
        => /\ (\E i \in 2 .. Len(text_io.lines) : IsBlankRecord(text_io.lines[i]))
                => (raised = "ParsingProblem" /\ ExitCode = 8 /\ pc = "done"
                    /\ moves = <<>> /\ grid = <<>>)
           /\ SomeMalformedRecord => (raised = "ParsingProblem" /\ ExitCode = 8)
           /\ MoveRecordsAreIntegers
                => /\ raised # "ParsingProblem"
                   /\ moves = [i \in 1 .. (Len(text_io.lines) - 1) |->
                                ParseInt(text_io.lines[i + 1]).value]

\* C15 witness: a move record followed by a blank line ended in the parsing
\* failure.
C15_Witness ==
    /\ pc = "done" /\ HeaderParameters.ok /\ MovesThenBlankLines
    /\ LastNonBlank = 2
    /\ raised = "ParsingProblem"

\* Player p has z consecutive discs of g along direction d.
HasLineAlong(g, p, d) ==
    \E cx \in 0 .. (x - 1), cy \in 0 .. (y - 1) :
        \A k \in 0 .. (z - 1) :
            /\ (cx + k * d[1]) \in 0 .. (x - 1)
            /\ (cy + k * d[2]) \in 0 .. (y - 1)
            /\ DiscAt(g, cx + k * d[1], cy + k * d[2]) = p

\* Every generated diagonal is a geometric diagonal: its cells are cells of
\* the grid, each one row above the one before, all one column to the right
\* or all one column to the left.
DiagonalsAreGeometric ==
    LET ds == Diagonals
    IN  \A n \in 1 .. Len(ds) :
            LET d == ds[n]
            IN  /\ \A k \in 1 .. Len(d) :
                        d[k][1] \in 0 .. (x - 1) /\ d[k][2] \in 0 .. (y - 1)
                /\ \E dx \in {1, 0 - 1} :
                        \A k \in 1 .. (Len(d) - 1) :
                            d[k + 1] = <<d[k][1] + dx, d[k][2] + 1>>

\* Every run of z diagonal cells of the grid lies, in order, on a generated
\* diagonal.
DiagonalRunsAreCovered ==
    LET ds == Diagonals
    IN  \A cx \in 0 .. (x - 1), cy \in 0 .. (y - 1), dx \in {1, 0 - 1} :
            (\A k \in 0 .. (z - 1) :
                (cx + k * dx) \in 0 .. (x - 1) /\ (cy + k) \in 0 .. (y - 1))
            => \E n \in 1 .. Len(ds) :
                \E j \in 0 .. (Len(ds[n]) - z) :
                    \A k \in 0 .. (z - 1) :
                        ds[n][j + k + 1] = <<cx + k * dx, cy + k>>

\* C16. Win detection equals the reference: on every board with columns of at
\* most y discs and for each player p, _check_for_result reports a win of p if
\* and only if p has z consecutive discs along a row, a column or a diagonal
\* of the grid (unfilled cells are nobody's); every generated diagonal is a
\* geometric diagonal and every diagonal run of z cells is covered by one
\* (the diagonals depend on x, y and z alone, which no step changes: they are
\* examined once for each configuration, on its empty board).
C16_WinDetectionIsReference ==
    /\ pc = "checked" => (result = WonBy(player) <=> HasLine(grid, player))
    /\ pc = "checked" =>
            (result = "DRAW" <=> (~HasLine(grid, player) /\ BoardFull(grid)))
    /\ (pc = "board" /\ applied = 0) =>
            (DiagonalsAreGeometric /\ DiagonalRunsAreCovered)

\* C16 witness: a win of 3 discs found on a falling diagonal alone, above a
\* column that is not full.
C16_Witness ==
    /\ pc = "checked" /\ z = 3 /\ result = WonBy(player)
    /\ HasLineAlong(grid, player, <<1, 0 - 1>>)
    /\ ~HasLineAlong(grid, player, <<1, 0>>)
    /\ ~HasLineAlong(grid, player, <<0, 1>>)
    /\ ~HasLineAlong(grid, player, <<1, 1>>)
    /\ ~BoardFull(grid)

\* C17 as stated. Per-move check order: at each move the engine checks first
\* whether the previous mover has a winning line, then whether the column is
\* within 1..x, then whether the column holds fewer than y discs; it reports
\* the failure of the first check that does not pass and appends the disc only
\* when all three pass.
C17_CheckOrderWinFirst ==
    [][AtMove =>
        IF PreviousMoverHasLine
        THEN raised' = "ToManyMovesException" /\ grid' = grid /\ pc' = "done"
        ELSE IF NextColumn \notin 1 .. x
        THEN raised' = "InvalidColumnException" /\ grid' = grid /\ pc' = "done"
        ELSE IF Len(grid[NextColumn]) >= y
        THEN raised' = "ColumnToHighException" /\ grid' = grid /\ pc' = "done"
        ELSE /\ raised' = None /\ pc' = "loop" /\ applied' = applied + 1
             /\ grid' = [grid EXCEPT ![NextColumn] = Append(@, player')]]_vars

\* C17 as amended. Per-move check order: at each move the engine checks first
\* whether the game already has a result, that is whether the previous mover
\* has a winning line or every column holds y discs, then whether the column is
\* within 1..x, then whether the column holds fewer than y discs; it reports
\* the failure of the first check that does not pass (too-many-moves,
\* invalid-column, column-overflow) and appends the disc only when all three
\* pass.
C17_CheckOrder ==
    [][AtMove =>
        IF PreviousMoverHasLine \/ BoardFull(grid)
        THEN raised' = "ToManyMovesException" /\ grid' = grid /\ pc' = "done"
        ELSE IF NextColumn \notin 1 .. x
        THEN raised' = "InvalidColumnException" /\ grid' = grid /\ pc' = "done"
        ELSE IF Len(grid[NextColumn]) >= y
        THEN raised' = "ColumnToHighException" /\ grid' = grid /\ pc' = "done"
        ELSE /\ raised' = None /\ pc' = "loop" /\ applied' = applied + 1
             /\ grid' = [grid EXCEPT ![NextColumn] = Append(@, player')]]_vars

\* C17 witness: too-many-moves at a move recorded after a win whose column is
\* already full.
C17_Witness ==
    /\ FailedAtMove /\ PreviousMoverHasLine /\ ~BoardFull(grid)
    /\ FailingColumn \in 1 .. x /\ Len(grid[FailingColumn]) = y
    /\ raised = "ToManyMovesException"

\* C18. Frame of the drop and of failures: a successful drop of move c changes
\* only column c, appending one disc of the player whose turn it is, and leaves
\* every other column as it was; a move that ends in invalid-column,
\* column-overflow or too-many-moves leaves the whole board as it was; the win
\* checks before a move and after the last move do not change the board.
C18_Frame ==
    [][/\ AtMove =>
            \/ /\ applied' = applied + 1 /\ raised' = None
               /\ Len(grid') = Len(grid)
               /\ \A c \in 1 .. Len(grid) :
                    grid'[c] = IF c = NextColumn
                               THEN Append(grid[c], IF applied % 2 = 0 THEN FIRST ELSE SECOND)
                               ELSE grid[c]
            \/ /\ applied' = applied
               /\ raised' \in {"InvalidColumnException", "ColumnToHighException",
                               "ToManyMovesException"}
               /\ grid' = grid
       /\ (pc = "loop" /\ applied = Len(moves)) => grid' = grid]_vars

\* C18 witness: after two drops into one column of a board of two columns the
\* other column is still empty, and the third move has failed.
C18_Witness ==
    /\ FailedAtMove /\ x = 2 /\ applied = 2
    /\ \E c \in 1 .. x : grid[c] = <<>>

\* At most one player has z consecutive discs in a line of the board, and a
\* player who has is the one who placed the most recent disc.
OnlyLastMoverHasLine ==
    LET first == HasLine(grid, FIRST)
        second == HasLine(grid, SECOND)
    IN  /\ ~(first /\ second)
        /\ first => (applied > 0 /\ LastMover = FIRST)
        /\ second => (applied > 0 /\ LastMover = SECOND)

\* C19. Single winner: in every state of a replay at most one player has z
\* consecutive discs in a line, and a player who has is the one who placed the
\* most recent disc; when a disc is appended, neither player had a winning
\* line on the board before it. (The board exists from the first step of
\* play() on, so the first part is stated of the state every step leads to.)
C19_SingleWinner ==
    [][/\ OnlyLastMoverHasLine'
       /\ applied' = applied + 1 =>
            (~HasLine(grid, FIRST) /\ ~HasLine(grid, SECOND))]_vars

\* C19 witness: a board on which SECOND, the last mover, has a winning line of
\* two discs and FIRST has none.
C19_Witness ==
    /\ pc = "done" /\ z = 2 /\ applied > 0
    /\ HasLine(grid, SECOND) /\ ~HasLine(grid, FIRST) /\ LastMover = SECOND

\* The number of discs of player p on board g.
RECURSIVE CountInColumns(_, _, _)
CountInColumns(g, p, c) ==
    IF c = 0 THEN 0
    ELSE Cardinality({i \in 1 .. Len(g[c]) : g[c][i] = p}) + CountInColumns(g, p, c - 1)

DiscsOf(g, p) == CountInColumns(g, p, Len(g))

\* C20. Disc balance: in every state of a replay the number of discs on the
\* board is the number of moves applied, the discs of FIRST are as many as
\* those of SECOND after an even number of applied moves and one more after an
\* odd number; FIRST_WON is returned after an odd number of applied moves and
\* SECOND_WON after an even number.
C20_DiscBalance ==
    /\ DiscsOf(grid, FIRST) + DiscsOf(grid, SECOND) = applied
    /\ DiscsOf(grid, FIRST) - DiscsOf(grid, SECOND) = applied % 2
    /\ result = "FIRST_WON" => applied % 2 = 1
    /\ result = "SECOND_WON" => (applied % 2 = 0 /\ applied > 0)

\* C20 witness: SECOND_WON returned after four applied moves.
C20_Witness ==
    /\ pc = "done" /\ result = "SECOND_WON" /\ applied = 4
    /\ DiscsOf(grid, FIRST) = 2 /\ DiscsOf(grid, SECOND) = 2

====
